---------------------------- MODULE Spec2Model ----------------------------
(***************************************************************************)
(* Model of the in-game rating overlay (src/src/ingame_overlay.py):        *)
(* the draft-pack sort key, the badge layout, and the InGameOverlay        *)
(* object with its badge pool, cached pack/ratings and its polling timer.  *)
(*                                                                         *)
(* Card names are sequences of character codes, so that Python's string    *)
(* order and str.isdigit() are computed, not assumed.  A card is a         *)
(* function from the keys it has to their values (a Python dict).          *)
(* Layout arithmetic is exact rational arithmetic over the default         *)
(* calibration fractions, truncated toward zero as int() does.             *)
(* self._last_mtga_rect is written by _position_badges and read nowhere;   *)
(* it is left out.                                                         *)
(*                                                                         *)
(* The two pure functions, the sort and the layout, are also run on their  *)
(* own over bounded inputs (SortSpec, LayoutSpec), one call per behaviour. *)
(*                                                                         *)
(* MLSpec is the rating engine (src/src/ml_rating.py): MLModelManager with *)
(* its two caches over the model files on disk, and MLRatingCalculator.    *)
(* A session is named by the file it was loaded from; what session.run()   *)
(* returns is an input of compute_ratings; ratings are in tenths.          *)
(* DirSpec is the choice of the directory MLModelManager starts with.      *)
(* CadenceSpec is the overlay with a Tk call that may raise during a tick. *)
(***************************************************************************)
EXTENDS Integers, Sequences, FiniteSets, TLC

VARIABLES
    platformWin32,      \* sys.platform == "win32"
    enabled,            \* configuration.settings.ingame_overlay_enabled
    win,                \* the MTGA window as the Win32 calls report it
    toplevels,          \* the Toplevel windows that exist in the Tk root
    timers,             \* the after() callbacks pending in the Tk root
    _badges,            \* self._badges
    _poll_id,           \* self._poll_id
    _last_pack_cards,   \* self._last_pack_cards
    _last_ratings,      \* self._last_ratings
    _last_pick_number,  \* self._last_pick_number
    snap,               \* history: the badges and the window when the flag
                        \* went off over badges placed from that window; valid
                        \* until the next operation other than a toggle, a
                        \* window change, or a tick or update with the flag off
    sort_in,            \* the list handed to sorted(..., key=mtga_draft_sort_key)
    sort_out,           \* the list it returns
    sort_again,         \* the list returned when sort_out is sorted again
    sort_pc,            \* "call", "sorted" or "resorted"
    lay_count,          \* num_cards of a _calculate_card_positions call
    lay_rect,           \* window_rect of that call
    lay_positions,      \* the list it returns
    lay_pc,             \* "call" or "returned"
    ONNX_AVAILABLE,     \* import onnxruntime succeeded
    appdata_files,      \* what the AppData models directory holds
    model_directory,    \* MLModelManager.model_directory
    _sessions,          \* MLModelManager._sessions
    _cardnames,         \* MLModelManager._cardnames
    _current_ratings,   \* MLRatingCalculator._current_ratings
    _current_set,       \* MLRatingCalculator._current_set
    _current_mode,      \* MLRatingCalculator._current_mode
    ret,                \* the mapping the last compute_ratings returned
    ret_is_current,     \* ret is the object self._current_ratings refers to
    raised,             \* the last call ended in an exception
    last,               \* history: the session and vocabulary the last call
                        \* obtained and the files it read
    dir_appdata,        \* what the AppData models directory holds
    dir_frozen,         \* getattr(sys, 'frozen', False)
    dir_exe,            \* the models directory next to the executable
    dir_script,         \* the models directory next to the source tree
    dir_override,       \* the model_directory argument of MLModelManager()
    dir_result,         \* self.model_directory after __init__
    dir_pc              \* "call" or "constructed"

overlayVars == <<platformWin32, enabled, win, toplevels, timers, _badges, _poll_id,
                 _last_pack_cards, _last_ratings, _last_pick_number, snap>>
sortVars == <<sort_in, sort_out, sort_again, sort_pc>>
layoutVars == <<lay_count, lay_rect, lay_positions, lay_pc>>
mlVars == <<ONNX_AVAILABLE, appdata_files, model_directory, _sessions, _cardnames,
            _current_ratings, _current_set, _current_mode, ret, ret_is_current,
            raised, last>>

dirVars == <<dir_appdata, dir_frozen, dir_exe, dir_script, dir_override,
             dir_result, dir_pc>>
vars == <<overlayVars, sortVars, layoutVars, mlVars, dirVars>>

\* Python's None, where the other values are tuples (a rectangle, a position,
\* a label) and where they are names (a window handle, a timer id)
None == <<>>
NoneId == "None"

--------------------------------------------------------------------------
(* Bounds and input sets *)

MaxPackLen == 1

\* "Opt" and "Shock"
NameOpt == <<79, 112, 116>>
NameShock == <<83, 104, 111, 99, 107>>

CardOpt == [name |-> NameOpt, rarity |-> "common", types |-> {"Instant"}, colors |-> {"U"}]
CardShock == [name |-> NameShock, rarity |-> "common", types |-> {"Instant"}, colors |-> {"R"}]

Catalog == {CardOpt, CardShock}

\* A pack longer than the 15 cards a layout exists for
OversizePack == [i \in 1..16 |-> IF i % 2 = 0 THEN CardOpt ELSE CardShock]

\* A pack in Arena order that the sort reorders
PairPack == <<CardShock, CardOpt>>

\* Every pack of at most MaxPackLen cards, and the two packs above
Packs == UNION {[1..n -> Catalog] : n \in 0..MaxPackLen} \cup {PairPack, OversizePack}

RatedNames == {NameOpt, NameShock}
\* No ratings, a tie at the top, distinct ratings, and a map that lacks a
\* name and holds no positive rating
RatingMaps ==
    {[n \in {} |-> 0],
     [n \in RatedNames |-> 80],
     [n \in RatedNames |-> IF n = NameOpt THEN 50 ELSE 80],
     [n \in {NameShock} |-> 0]}

PickNumbers == {1}

\* (left, top, right, bottom); the last one has zero width
Rects == {<<100, 100, 1100, 600>>, <<0, 0, 800, 600>>, <<100, 100, 100, 600>>}

\* What _find_mtga_window, _is_minimized and _get_mtga_rect report
WinStates ==
    {[found |-> FALSE, minimized |-> FALSE, rect |-> None],
     [found |-> TRUE, minimized |-> TRUE, rect |-> None],
     [found |-> TRUE, minimized |-> FALSE, rect |-> None]}
    \cup {[found |-> TRUE, minimized |-> FALSE, rect |-> r] : r \in Rects}

--------------------------------------------------------------------------
(* Sort key *)

Get(card, key, default) == IF key \in DOMAIN card THEN card[key] ELSE default

_RARITY_ORDER(r) ==
    CASE r = "mythic" -> 0
      [] r = "rare" -> 1
      [] r = "uncommon" -> 2
      [] r = "common" -> 3
      [] OTHER -> 3

_COLOR_SORT_TABLE(m) ==
        CASE m = 1 -> 0 [] m = 2 -> 1 [] m = 4 -> 2 [] m = 8 -> 3 [] m = 16 -> 4
          [] m = 3 -> 5 [] m = 5 -> 6 [] m = 6 -> 7 [] m = 10 -> 8 [] m = 12 -> 9
          [] m = 20 -> 10 [] m = 24 -> 11 [] m = 9 -> 12 [] m = 17 -> 13
          [] m = 18 -> 14 [] m = 7 -> 15 [] m = 14 -> 16 [] m = 28 -> 17
          [] m = 25 -> 18 [] m = 19 -> 19 [] m = 13 -> 20 [] m = 26 -> 21
          [] m = 21 -> 22 [] m = 11 -> 23 [] m = 22 -> 24 [] m = 15 -> 25
          [] m = 30 -> 26 [] m = 29 -> 27 [] m = 27 -> 28 [] m = 23 -> 29
          [] m = 31 -> 30 [] m = 0 -> 31

_COLOR_FLAG(c) ==
    CASE c = "W" -> 1 [] c = "U" -> 2 [] c = "B" -> 4 [] c = "R" -> 8
      [] c = "G" -> 16 [] OTHER -> 0

\* Faulty variant, for sensitivity of the properties: color_identity is never read
_card_color_flags_ColorsOnly(card) ==
    LET colors == Get(card, "colors", {})
    IN  (IF "W" \in colors THEN 1 ELSE 0) + (IF "U" \in colors THEN 2 ELSE 0)
      + (IF "B" \in colors THEN 4 ELSE 0) + (IF "R" \in colors THEN 8 ELSE 0)
      + (IF "G" \in colors THEN 16 ELSE 0)

\* flag |= _COLOR_FLAG.get(c, 0) over the colours: each known colour's bit once
_card_color_flags(card) ==
    LET types == Get(card, "types", {})
        is_artifact_or_land == \E t \in types : t \in {"Artifact", "Land"}
        colors == IF is_artifact_or_land /\ "color_identity" \in DOMAIN card
                  THEN card["color_identity"]
                  ELSE Get(card, "colors", {})
    IN  (IF "W" \in colors THEN 1 ELSE 0) + (IF "U" \in colors THEN 2 ELSE 0)
      + (IF "B" \in colors THEN 4 ELSE 0) + (IF "R" \in colors THEN 8 ELSE 0)
      + (IF "G" \in colors THEN 16 ELSE 0)

\* str.isdigit(): at least one character and every character a digit
IsDigit(name) == Len(name) > 0 /\ \A i \in 1..Len(name) : name[i] \in 48..57

\* Faulty variant, for sensitivity of the properties: no rule for digit-only names
mtga_draft_sort_key_NoDigitRule(card) ==
    <<_RARITY_ORDER(Get(card, "rarity", "common")),
      IF "Land" \in Get(card, "types", {}) THEN 1 ELSE 0,
      _COLOR_SORT_TABLE(_card_color_flags(card) % 32),
      Get(card, "name", <<>>)>>

mtga_draft_sort_key(card) ==
    LET name == Get(card, "name", <<>>)
    IN  IF IsDigit(name)
        THEN <<3, 1, 32, name>>
        ELSE <<_RARITY_ORDER(Get(card, "rarity", "common")),
               IF "Land" \in Get(card, "types", {}) THEN 1 ELSE 0,
               _COLOR_SORT_TABLE(_card_color_flags(card) % 32),
               name>>

\* Python's order on strings: by code point, a proper prefix first
StrLess(a, b) ==
    \E i \in 1..(Len(b)) :
        /\ \A j \in 1..(i - 1) : j <= Len(a) /\ a[j] = b[j]
        /\ \/ i = Len(a) + 1
           \/ i <= Len(a) /\ a[i] < b[i]

\* Python's order on the key tuples
KeyLess(k, l) ==
    \/ k[1] < l[1]
    \/ k[1] = l[1] /\ k[2] < l[2]
    \/ k[1] = l[1] /\ k[2] = l[2] /\ k[3] < l[3]
    \/ k[1] = l[1] /\ k[2] = l[2] /\ k[3] = l[3] /\ StrLess(k[4], l[4])

\* Faulty variant, for sensitivity of the properties: a card goes before the
\* cards already placed whose key is equal (the sort is not stable)
RECURSIVE SortedFrom_Unstable(_, _, _, _)
SortedFrom_Unstable(done, doneKeys, rest, restKeys) ==
    IF rest = <<>> THEN done
    ELSE LET at == Cardinality({i \in 1..Len(done) :
                                  KeyLess(doneKeys[i], Head(restKeys))})
         IN  SortedFrom_Unstable(
                SubSeq(done, 1, at) \o <<Head(rest)>> \o SubSeq(done, at + 1, Len(done)),
                SubSeq(doneKeys, 1, at) \o <<Head(restKeys)>>
                    \o SubSeq(doneKeys, at + 1, Len(doneKeys)),
                Tail(rest), Tail(restKeys))

\* sorted(cards, key=mtga_draft_sort_key): the key of each card is computed
\* once and the sort is stable, so a card goes after every card already
\* placed whose key is not greater
RECURSIVE SortedFrom(_, _, _, _)
SortedFrom(done, doneKeys, rest, restKeys) ==
    IF rest = <<>> THEN done
    ELSE LET at == Cardinality({i \in 1..Len(done) :
                                  ~KeyLess(Head(restKeys), doneKeys[i])})
         IN  SortedFrom(
                SubSeq(done, 1, at) \o <<Head(rest)>> \o SubSeq(done, at + 1, Len(done)),
                SubSeq(doneKeys, 1, at) \o <<Head(restKeys)>>
                    \o SubSeq(doneKeys, at + 1, Len(doneKeys)),
                Tail(rest), Tail(restKeys))

sorted(cards) ==
    IF cards = <<>> THEN <<>>
    ELSE SortedFrom(<<>>, <<>>, cards,
                    [i \in 1..Len(cards) |-> mtga_draft_sort_key(cards[i])])

--------------------------------------------------------------------------
(* Layout *)

\* The default calibration fractions, in thousandths of the client area
ingame_grid_left == 160
ingame_grid_right == 826
ingame_grid_top == 320
ingame_grid_bottom == 654
\* Half of the badge width, in pixels
BadgeHalfWidth == 15
\* y_offset as hundredths of the cell height
YOffsetPct == 8

\* Faulty variant, for sensitivity of the properties: rows of seven
GRID_LAYOUTS_SevenColumns(num_cards) ==
    IF num_cards \in 1..7 THEN <<num_cards, 1>> ELSE <<7, 2>>

\* GRID_LAYOUTS.get(num_cards, (8, 2))
GRID_LAYOUTS(num_cards) ==
    IF num_cards \in 1..8 THEN <<num_cards, 1>> ELSE <<8, 2>>

\* int(): truncation toward zero of a / b, b > 0
Trunc(a, b) == IF a >= 0 THEN a \div b ELSE -((-a) \div b)

\* Faulty variant, for sensitivity of the properties: the size of the
\* rectangle is not looked at
_calculate_card_positions_NoSizeCheck(num_cards, window_rect) ==
    IF num_cards <= 0 \/ num_cards > 15 THEN <<>>
    ELSE [k \in 1..num_cards |-> <<window_rect[1], window_rect[2]>>]

_calculate_card_positions(num_cards, window_rect) ==
    IF num_cards <= 0 \/ num_cards > 15 THEN <<>>
    ELSE LET left == window_rect[1]
             top == window_rect[2]
             w == window_rect[3] - window_rect[1]
             h == window_rect[4] - window_rect[2]
             cols == GRID_LAYOUTS(num_cards)[1]
             gw == ingame_grid_right - ingame_grid_left
             gh == ingame_grid_bottom - ingame_grid_top
             \* cx - 15 over 16000: grid_x0 + col_idx * cell_w + cell_w / 2 - 15
             bx(col_idx) == 16000 * left + 16 * ingame_grid_left * w
                            + 2 * col_idx * gw * w + gw * w
                            - 16000 * BadgeHalfWidth
             \* cy over 200000: grid_y0 + row_idx * cell_h + cell_h * 0.08
             by(row_idx) == 200000 * top + 200 * ingame_grid_top * h
                            + 100 * row_idx * gh * h + YOffsetPct * gh * h
         IN  IF w <= 0 \/ h <= 0 THEN <<>>
             ELSE [k \in 1..num_cards |->
                     <<Trunc(bx((k - 1) % cols), 16000),
                       Trunc(by((k - 1) \div cols), 200000)>>]

--------------------------------------------------------------------------
(* RatingBadge *)

\* RatingBadge.__init__: a withdrawn Toplevel with an empty label.  pos is
\* the geometry (x, y) and rating the one number the label shows.
RatingBadge(top) ==
    [top |-> top, visible |-> FALSE, pos |-> None, rating |-> None,
     is_best |-> FALSE]

show(badge, x, y, rating, is_best) ==
    [badge EXCEPT !.pos = <<x, y>>, !.rating = <<rating>>, !.is_best = is_best,
                  !.visible = TRUE]

hide(badge) == IF badge.visible THEN [badge EXCEPT !.visible = FALSE] ELSE badge

--------------------------------------------------------------------------
(* InGameOverlay *)

_find_mtga_window(w) ==
    IF ~platformWin32 THEN NoneId
    ELSE IF w.found THEN "hwnd" ELSE NoneId

_is_minimized(w) == w.minimized

_get_mtga_rect(w) == w.rect

\* Faulty variant, for sensitivity of the properties: the badges are dropped from the pool instead of withdrawn
_hide_all_Drop(badges) == <<>>

_hide_all(badges) ==
    IF badges = <<>> THEN <<>>
    ELSE [i \in 1..Len(badges) |-> hide(badges[i])]

\* The smallest window id the Tk root does not use
FreshTop(tops) == CHOOSE t \in 0..Cardinality(tops) : t \notin tops

\* Faulty variant, for sensitivity of the properties: "<=" for "<", one badge more than the pack has cards
RECURSIVE GrowPool_OneMore(_, _, _)
GrowPool_OneMore(badges, tops, num_cards) ==
    IF Len(badges) > num_cards THEN [badges |-> badges, toplevels |-> tops]
    ELSE LET t == FreshTop(tops)
         IN  GrowPool_OneMore(Append(badges, RatingBadge(t)), tops \cup {t}, num_cards)

\* while len(self._badges) < num_cards: self._badges.append(RatingBadge(self.root))
RECURSIVE GrowPool(_, _, _)
GrowPool(badges, tops, num_cards) ==
    IF Len(badges) >= num_cards THEN [badges |-> badges, toplevels |-> tops]
    ELSE LET t == FreshTop(tops)
         IN  GrowPool(Append(badges, RatingBadge(t)), tops \cup {t}, num_cards)

\* ratings_dict.get(name, 0.0) for each card of the sorted pack
CardRating(card, ratings_dict) ==
    LET name == Get(card, "name", <<>>)
    IN  IF name \in DOMAIN ratings_dict THEN ratings_dict[name] ELSE 0

\* max((r for _, r in card_ratings), default=0)
BestRating(pack_cards, ratings_dict) ==
    IF pack_cards = <<>> THEN 0
    ELSE CHOOSE m \in {CardRating(pack_cards[i], ratings_dict) : i \in 1..Len(pack_cards)} :
            \A i \in 1..Len(pack_cards) : CardRating(pack_cards[i], ratings_dict) <= m

IsBest(rating, best_rating) == rating = best_rating /\ rating > 0

\* Faulty variant, for sensitivity of the properties: the badges beyond the pack are left as they were
ShowBadges_KeepExtra(badges, positions, pack_cards, ratings_dict) ==
    LET num_cards == Len(pack_cards)
        best_rating == BestRating(pack_cards, ratings_dict)
    IN  [idx \in 1..Len(badges) |->
            IF idx <= num_cards
            THEN LET rating == CardRating(pack_cards[idx], ratings_dict)
                 IN  show(badges[idx], positions[idx][1], positions[idx][2],
                          rating, IsBest(rating, best_rating))
            ELSE badges[idx]]

\* The two loops that end a successful _position_badges
ShowBadges(badges, positions, pack_cards, ratings_dict) ==
    LET num_cards == Len(pack_cards)
        best_rating == BestRating(pack_cards, ratings_dict)
    IN  [idx \in 1..Len(badges) |->
            IF idx <= num_cards
            THEN LET rating == CardRating(pack_cards[idx], ratings_dict)
                 IN  show(badges[idx], positions[idx][1], positions[idx][2],
                          rating, IsBest(rating, best_rating))
            ELSE hide(badges[idx])]

\* The badges and the Toplevels as _position_badges leaves them.  sorted()
\* keeps the length of the list, so "not pack_cards" and len(pack_cards) are
\* read off the cached list.
_position_badges(badges, tops, cards, ratings_dict, w) ==
    LET pack_cards == IF cards # <<>> THEN sorted(cards) ELSE <<>>
        hidden == [badges |-> _hide_all(badges), toplevels |-> tops]
    IN  IF cards = <<>> \/ DOMAIN ratings_dict = {} THEN hidden
        ELSE IF _find_mtga_window(w) = NoneId THEN hidden
        ELSE IF _is_minimized(w) THEN hidden
        ELSE IF _get_mtga_rect(w) = None THEN hidden
        ELSE LET rect == _get_mtga_rect(w)
                 num_cards == Len(cards)
                 positions == _calculate_card_positions(num_cards, rect)
             IN  IF Len(positions) # num_cards THEN hidden
                 ELSE LET pool == GrowPool(badges, tops, num_cards)
                      IN  [badges |-> ShowBadges(pool.badges, positions,
                                                 pack_cards, ratings_dict),
                           toplevels |-> pool.toplevels]

--------------------------------------------------------------------------
(* State machine *)

EmptyDict == [n \in {} |-> 0]

NoSnap == [valid |-> FALSE, badges |-> <<>>,
           win |-> [found |-> FALSE, minimized |-> FALSE, rect |-> None]]

\* root.after(): an id no pending or just-fired callback has
TimerIds == {"after#1", "after#2", "after#3"}
NewTimer(pending) == CHOOSE t \in TimerIds : t \notin pending

AnyVisible(badges) == \E i \in 1..Len(badges) : badges[i].visible

\* Some badges are visible, and they are where the rectangle of w puts them
PlacedFrom(badges, w) ==
    /\ AnyVisible(badges)
    /\ w.found /\ ~w.minimized /\ w.rect # None
    /\ LET n == Cardinality({i \in 1..Len(badges) : badges[i].visible})
           positions == _calculate_card_positions(n, w.rect)
       IN  /\ Len(positions) = n
           /\ \A i \in 1..n : badges[i].visible /\ badges[i].pos = positions[i]

\* What a call that touched neither cache nor disk leaves in the history
NoLast == [session |-> None, found |-> FALSE, read |-> {}]

\* No MLModelManager and no MLRatingCalculator exist
MLIdle ==
    /\ ONNX_AVAILABLE = FALSE
    /\ appdata_files = "empty"
    /\ model_directory = ""
    /\ _sessions = EmptyDict
    /\ _cardnames = EmptyDict
    /\ _current_ratings = EmptyDict
    /\ _current_set = ""
    /\ _current_mode = ""
    /\ ret = EmptyDict
    /\ ret_is_current = FALSE
    /\ raised = FALSE
    /\ last = NoLast

\* No MLModelManager is being constructed
DirIdle ==
    /\ dir_appdata = "empty"
    /\ dir_frozen = FALSE
    /\ dir_exe = "absent"
    /\ dir_script = "absent"
    /\ dir_override = ""
    /\ dir_result = ""
    /\ dir_pc = "idle"

\* No sorted() call is under way
SortIdle ==
    /\ sort_in = <<>>
    /\ sort_out = <<>>
    /\ sort_again = <<>>
    /\ sort_pc = "idle"

\* No _calculate_card_positions call is under way
LayoutIdle ==
    /\ lay_count = 0
    /\ lay_rect = None
    /\ lay_positions = <<>>
    /\ lay_pc = "idle"

\* No InGameOverlay exists
OverlayIdle ==
    /\ platformWin32 = FALSE
    /\ enabled = FALSE
    /\ win = [found |-> FALSE, minimized |-> FALSE, rect |-> None]
    /\ toplevels = {}
    /\ timers = {}
    /\ _badges = <<>>
    /\ _poll_id = NoneId
    /\ _last_pack_cards = <<>>
    /\ _last_ratings = EmptyDict
    /\ _last_pick_number = -1
    /\ snap = NoSnap

\* InGameOverlay.__init__ followed by the first _poll_tick of _start_polling
Init ==
    /\ SortIdle
    /\ LayoutIdle
    /\ MLIdle
    /\ DirIdle
    /\ platformWin32 \in BOOLEAN
    /\ enabled \in BOOLEAN
    /\ win \in WinStates
    /\ toplevels = {}
    /\ _badges = <<>>
    /\ _last_pack_cards = <<>>
    /\ _last_ratings = EmptyDict
    /\ _last_pick_number = -1
    /\ _poll_id = NewTimer({})
    /\ timers = {NewTimer({})}
    /\ snap = NoSnap

\* Faulty variant, for sensitivity of the properties: the state is cached and the badges wait for the next tick
update_NoReposition(pack_cards, ratings_dict, pick_number) ==
    /\ UNCHANGED <<platformWin32, enabled, win, timers, _poll_id>>
    /\ IF ~enabled
       THEN /\ _badges' = _hide_all(_badges)
            /\ UNCHANGED <<toplevels, _last_pack_cards,
                           _last_ratings, _last_pick_number, snap>>
       ELSE IF ~platformWin32
       THEN UNCHANGED <<_badges, toplevels, _last_pack_cards,
                        _last_ratings, _last_pick_number, snap>>
       ELSE /\ _last_pack_cards' = pack_cards
            /\ _last_ratings' = ratings_dict
            /\ _last_pick_number' = pick_number
            /\ snap' = NoSnap
            /\ UNCHANGED <<_badges, toplevels>>

\* Faulty variant, for sensitivity of the properties: the state is cached before the enable flag is read
update_StoreWhenOff(pack_cards, ratings_dict, pick_number) ==
    /\ UNCHANGED <<platformWin32, enabled, win, timers, _poll_id>>
    /\ IF ~enabled
       THEN /\ _badges' = _hide_all(_badges)
            /\ _last_pack_cards' = pack_cards
            /\ _last_ratings' = ratings_dict
            /\ _last_pick_number' = pick_number
            /\ UNCHANGED <<toplevels, snap>>
       ELSE IF ~platformWin32
       THEN UNCHANGED <<_badges, toplevels, _last_pack_cards,
                        _last_ratings, _last_pick_number, snap>>
       ELSE /\ _last_pack_cards' = pack_cards
            /\ _last_ratings' = ratings_dict
            /\ _last_pick_number' = pick_number
            /\ snap' = NoSnap
            /\ \E r \in {_position_badges(_badges, toplevels,
                                           pack_cards, ratings_dict, win)} :
                    /\ _badges' = r.badges
                    /\ toplevels' = r.toplevels

update(pack_cards, ratings_dict, pick_number) ==
    /\ UNCHANGED <<platformWin32, enabled, win, timers, _poll_id>>
    /\ IF ~enabled
       THEN /\ _badges' = _hide_all(_badges)
            /\ UNCHANGED <<toplevels, _last_pack_cards,
                           _last_ratings, _last_pick_number, snap>>
       ELSE IF ~platformWin32
       THEN UNCHANGED <<_badges, toplevels, _last_pack_cards,
                        _last_ratings, _last_pick_number, snap>>
       ELSE /\ _last_pack_cards' = pack_cards
            /\ _last_ratings' = ratings_dict
            /\ _last_pick_number' = pick_number
            /\ snap' = NoSnap
            /\ \E r \in {_position_badges(_badges, toplevels,
                                           pack_cards, ratings_dict, win)} :
                    /\ _badges' = r.badges
                    /\ toplevels' = r.toplevels

\* Faulty variant, for sensitivity of the properties: the tick only reschedules itself
_poll_tick_NoReposition ==
    \E fired \in timers :
        /\ _poll_id' = NewTimer(timers)
        /\ timers' = (timers \ {fired}) \cup {NewTimer(timers)}
        /\ snap' = IF enabled THEN [snap EXCEPT !.valid = FALSE] ELSE snap
        /\ UNCHANGED <<platformWin32, enabled, win, _last_pack_cards,
                       _last_ratings, _last_pick_number, _badges, toplevels>>

\* The Tk root runs a pending callback
_poll_tick ==
    \E fired \in timers :
        /\ _poll_id' = NewTimer(timers)
        /\ timers' = (timers \ {fired}) \cup {NewTimer(timers)}
        /\ snap' = IF enabled THEN [snap EXCEPT !.valid = FALSE] ELSE snap
        /\ UNCHANGED <<platformWin32, enabled, win, _last_pack_cards,
                       _last_ratings, _last_pick_number>>
        /\ IF enabled /\ _last_pack_cards # <<>> /\ DOMAIN _last_ratings # {}
           THEN \E r \in {_position_badges(_badges, toplevels,
                                            _last_pack_cards, _last_ratings, win)} :
                    /\ _badges' = r.badges
                    /\ toplevels' = r.toplevels
           ELSE UNCHANGED <<_badges, toplevels>>

\* Faulty variant, for sensitivity of the properties: the cached state is cleared and the badges stay
hide_all_KeepBadges ==
    /\ _last_pack_cards' = <<>>
    /\ _last_ratings' = EmptyDict
    /\ snap' = NoSnap
    /\ UNCHANGED <<platformWin32, enabled, win, toplevels, timers, _poll_id,
                   _last_pick_number, _badges>>

\* Faulty variant, for sensitivity of the properties: the badges are hidden and the cached ratings stay
hide_all_KeepRatings ==
    /\ _last_pack_cards' = <<>>
    /\ _badges' = _hide_all(_badges)
    /\ snap' = NoSnap
    /\ UNCHANGED <<platformWin32, enabled, win, toplevels, timers, _poll_id,
                   _last_ratings, _last_pick_number>>

hide_all ==
    /\ _last_pack_cards' = <<>>
    /\ _last_ratings' = EmptyDict
    /\ _badges' = _hide_all(_badges)
    /\ snap' = NoSnap
    /\ UNCHANGED <<platformWin32, enabled, win, toplevels, timers, _poll_id,
                   _last_pick_number>>

\* Faulty variant, for sensitivity of the properties: the id is forgotten and the callback is not cancelled
_stop_polling_NoCancel(pending, poll_id) ==
    [timers |-> pending, poll_id |-> NoneId]

\* after_cancel(self._poll_id) and self._poll_id = None
_stop_polling(pending, poll_id) ==
    IF poll_id # NoneId
    THEN [timers |-> pending \ {poll_id}, poll_id |-> NoneId]
    ELSE [timers |-> pending, poll_id |-> poll_id]

destroy ==
    LET p == _stop_polling(timers, _poll_id)
    IN  /\ timers' = p.timers
        /\ _poll_id' = p.poll_id
        /\ toplevels' = toplevels \ {_badges[i].top : i \in 1..Len(_badges)}
        /\ _badges' = <<>>
        /\ snap' = NoSnap
        /\ UNCHANGED <<platformWin32, enabled, win, _last_pack_cards,
                       _last_ratings, _last_pick_number>>

\* The settings dialog writes the enable flag
SetEnabled(v) ==
    /\ v # enabled
    /\ enabled' = v
    /\ snap' = IF v THEN snap
               ELSE IF PlacedFrom(_badges, win)
                    THEN [valid |-> TRUE, badges |-> _badges, win |-> win]
                    ELSE NoSnap
    /\ UNCHANGED <<platformWin32, win, toplevels, timers, _badges, _poll_id,
                   _last_pack_cards, _last_ratings,
                   _last_pick_number>>

\* The MTGA window appears, disappears, is minimized, moved or resized
WindowChange(w) ==
    /\ w # win
    /\ win' = w
    /\ UNCHANGED <<platformWin32, enabled, toplevels, timers, _badges, _poll_id,
                   _last_pack_cards, _last_ratings,
                   _last_pick_number, snap>>

Next ==
    \/ /\ \E p \in Packs, r \in RatingMaps, k \in PickNumbers : update(p, r, k)
       /\ UNCHANGED <<sortVars, layoutVars, mlVars, dirVars>>
    \/ _poll_tick /\ UNCHANGED <<sortVars, layoutVars, mlVars, dirVars>>
    \/ hide_all /\ UNCHANGED <<sortVars, layoutVars, mlVars, dirVars>>
    \/ destroy /\ UNCHANGED <<sortVars, layoutVars, mlVars, dirVars>>
    \/ /\ \E v \in BOOLEAN : SetEnabled(v)
       /\ UNCHANGED <<sortVars, layoutVars, mlVars, dirVars>>
    \/ /\ \E w \in WinStates : WindowChange(w)
       /\ UNCHANGED <<sortVars, layoutVars, mlVars, dirVars>>

Spec == Init /\ [][Next]_vars

--------------------------------------------------------------------------
(* The overlay over a window that may be very small *)

\* A client rectangle in which the columns of a row are less than a pixel apart
NarrowRect == <<0, 0, 10, 10>>

NarrowWinStates ==
    {[found |-> FALSE, minimized |-> FALSE, rect |-> None],
     [found |-> TRUE, minimized |-> FALSE, rect |-> <<100, 100, 1100, 600>>],
     [found |-> TRUE, minimized |-> FALSE, rect |-> NarrowRect]}

NarrowInit ==
    /\ SortIdle
    /\ LayoutIdle
    /\ MLIdle
    /\ DirIdle
    /\ platformWin32 \in BOOLEAN
    /\ enabled \in BOOLEAN
    /\ win \in NarrowWinStates
    /\ toplevels = {}
    /\ _badges = <<>>
    /\ _last_pack_cards = <<>>
    /\ _last_ratings = EmptyDict
    /\ _last_pick_number = -1
    /\ _poll_id = NewTimer({})
    /\ timers = {NewTimer({})}
    /\ snap = NoSnap

NarrowNext ==
    \/ /\ \E p \in Packs, r \in RatingMaps, k \in PickNumbers : update(p, r, k)
       /\ UNCHANGED <<sortVars, layoutVars, mlVars, dirVars>>
    \/ _poll_tick /\ UNCHANGED <<sortVars, layoutVars, mlVars, dirVars>>
    \/ hide_all /\ UNCHANGED <<sortVars, layoutVars, mlVars, dirVars>>
    \/ destroy /\ UNCHANGED <<sortVars, layoutVars, mlVars, dirVars>>
    \/ /\ \E v \in BOOLEAN : SetEnabled(v)
       /\ UNCHANGED <<sortVars, layoutVars, mlVars, dirVars>>
    \/ /\ \E w \in NarrowWinStates : WindowChange(w)
       /\ UNCHANGED <<sortVars, layoutVars, mlVars, dirVars>>

NarrowSpec == NarrowInit /\ [][NarrowNext]_vars

--------------------------------------------------------------------------
(* The overlay with a Tk that may fail during a tick *)

\* Faulty variant, for sensitivity of the properties: the exception leaves
\* _poll_tick and root.after() is not reached
_poll_tick_error_Escapes ==
    \E fired \in timers :
        /\ enabled /\ _last_pack_cards # <<>> /\ DOMAIN _last_ratings # {}
        /\ timers' = timers \ {fired}
        /\ snap' = [snap EXCEPT !.valid = FALSE]
        /\ UNCHANGED <<platformWin32, enabled, win, _last_pack_cards,
                       _last_ratings, _last_pick_number, _badges, toplevels,
                       _poll_id>>

\* The Tk root runs a pending callback and _position_badges raises on the
\* first Tk call it makes, before any badge has changed: the first
\* try/except of _poll_tick logs the error and the second try block
\* schedules the next tick
_poll_tick_error ==
    \E fired \in timers :
        /\ enabled /\ _last_pack_cards # <<>> /\ DOMAIN _last_ratings # {}
        /\ _poll_id' = NewTimer(timers)
        /\ timers' = (timers \ {fired}) \cup {NewTimer(timers)}
        /\ snap' = [snap EXCEPT !.valid = FALSE]
        /\ UNCHANGED <<platformWin32, enabled, win, _last_pack_cards,
                       _last_ratings, _last_pick_number, _badges, toplevels>>

CadenceNext ==
    \/ /\ \E p \in Packs, r \in RatingMaps, k \in PickNumbers : update(p, r, k)
       /\ UNCHANGED <<sortVars, layoutVars, mlVars, dirVars>>
    \/ _poll_tick /\ UNCHANGED <<sortVars, layoutVars, mlVars, dirVars>>
    \/ _poll_tick_error /\ UNCHANGED <<sortVars, layoutVars, mlVars, dirVars>>
    \/ hide_all /\ UNCHANGED <<sortVars, layoutVars, mlVars, dirVars>>
    \/ destroy /\ UNCHANGED <<sortVars, layoutVars, mlVars, dirVars>>
    \/ /\ \E v \in BOOLEAN : SetEnabled(v)
       /\ UNCHANGED <<sortVars, layoutVars, mlVars, dirVars>>
    \/ /\ \E w \in WinStates : WindowChange(w)
       /\ UNCHANGED <<sortVars, layoutVars, mlVars, dirVars>>

CadenceSpec == Init /\ [][CadenceNext]_vars

--------------------------------------------------------------------------
(* The sort on its own: sorted(pack_cards, key=mtga_draft_sort_key) *)

MaxSortLen == 3

\* "7", "Bog", "Orb", "Elf", "Ox"
NameSeven == <<55>>
NameBog == <<66, 111, 103>>
NameOrb == <<79, 114, 98>>
NameElf == <<69, 108, 102>>
NameOx == <<79, 120>>

\* Two cards with a digit-only name that declare different fields
SevenMythic == [name |-> NameSeven, rarity |-> "mythic", types |-> {"Creature"},
                colors |-> {"W"}]
SevenLand == [name |-> NameSeven, rarity |-> "common", types |-> {"Land"},
              colors |-> {}]
\* A colourless common land: the greatest key a card with a name can have
LandBog == [name |-> NameBog, rarity |-> "common", types |-> {"Land"},
            colors |-> {}]
\* An artifact whose colour is in color_identity only
ArtifactOrb == [name |-> NameOrb, rarity |-> "mythic", types |-> {"Artifact"},
                colors |-> {}, color_identity |-> {"R"}]
CardElf == [name |-> NameElf, rarity |-> "mythic", types |-> {"Creature"},
            colors |-> {"G"}]
CardOx == [name |-> NameOx, rarity |-> "rare", types |-> {"Creature"},
           colors |-> {"W", "U"}]
\* Cards that lack fields: only a name, and only a rarity no table knows
NameOnly == [name |-> NameShock]
RarityOnly == [rarity |-> "special"]

SortCatalog == {SevenMythic, SevenLand, LandBog, ArtifactOrb, CardElf, CardOx,
                CardOpt, NameOnly, RarityOnly}

SortInputs == UNION {[1..n -> SortCatalog] : n \in 0..MaxSortLen}

SortInit ==
    /\ OverlayIdle
    /\ LayoutIdle
    /\ MLIdle
    /\ DirIdle
    /\ sort_in \in SortInputs
    /\ sort_out = <<>>
    /\ sort_again = <<>>
    /\ sort_pc = "call"

\* pack_cards = sorted(pack_cards, key=mtga_draft_sort_key)
SortPack ==
    /\ sort_pc = "call"
    /\ sort_out' = sorted(sort_in)
    /\ sort_pc' = "sorted"
    /\ UNCHANGED <<sort_in, sort_again, overlayVars, layoutVars, mlVars, dirVars>>

\* The next reposition sorts a pack that arrives in the order of the last one
SortAgain ==
    /\ sort_pc = "sorted"
    /\ sort_again' = sorted(sort_out)
    /\ sort_pc' = "resorted"
    /\ UNCHANGED <<sort_in, sort_out, overlayVars, layoutVars, mlVars, dirVars>>

SortNext == SortPack \/ SortAgain

SortSpec == SortInit /\ [][SortNext]_vars

--------------------------------------------------------------------------
(* The layout on its own: _calculate_card_positions(num_cards, window_rect) *)

MaxCount == 17

\* From a negative count to counts no layout exists for
LayCounts == (0 - 1)..MaxCount

\* The rectangles of the overlay, one with a negative origin, and rectangles
\* of zero height, negative width and negative height
LayRects ==
    Rects \cup {<<0 - 200, 0 - 100, 600, 500>>, <<100, 100, 1100, 100>>,
                <<300, 100, 100, 600>>, <<100, 300, 1100, 100>>}

LayoutInit ==
    /\ OverlayIdle
    /\ SortIdle
    /\ MLIdle
    /\ DirIdle
    /\ lay_count \in LayCounts
    /\ lay_rect \in LayRects
    /\ lay_positions = <<>>
    /\ lay_pc = "call"

\* positions = self._calculate_card_positions(num_cards, rect)
CalculatePositions ==
    /\ lay_pc = "call"
    /\ lay_positions' = _calculate_card_positions(lay_count, lay_rect)
    /\ lay_pc' = "returned"
    /\ UNCHANGED <<lay_count, lay_rect, overlayVars, sortVars, mlVars, dirVars>>

LayoutNext == CalculatePositions

LayoutSpec == LayoutInit /\ [][LayoutNext]_vars

--------------------------------------------------------------------------
(* ML ratings: the files *)

MaxScores == 2

SetCodes == {"FDN", "DSK"}
Modes == {"Premier", "PickTwo"}
ModelDirs == {"appdata", "bundled"}

\* The AppData models directory holds nothing, the models of an earlier
\* download, or those of the latest release
AppdataStates == {"empty", "old", "new"}

\* <<directory, set, mode>> is the file <directory>/onnx/<set>_<mode>.onnx and
\* <<directory, set, "csv">> is the file <directory>/cards/<set>.csv.
\* The files that exist when the AppData directory is in state a:
OnnxFiles(a) ==
    {<<"bundled", "FDN", "Premier">>, <<"bundled", "DSK", "Premier">>,
     <<"bundled", "DSK", "PickTwo">>}
    \cup (CASE a = "old" -> {<<"appdata", "FDN", "PickTwo">>,
                             <<"appdata", "DSK", "Premier">>}
            [] a = "new" -> {<<"appdata", "FDN", "Premier">>,
                             <<"appdata", "FDN", "PickTwo">>}
            [] OTHER -> {})

CsvFiles(a) ==
    {<<"bundled", "FDN", "csv">>, <<"bundled", "DSK", "csv">>}
    \cup (CASE a = "old" -> {<<"appdata", "FDN", "csv">>, <<"appdata", "DSK", "csv">>}
            [] a = "new" -> {<<"appdata", "FDN", "csv">>}
            [] OTHER -> {})

\* The files on which ort.InferenceSession() and pd.read_csv() fail
CorruptFiles == {<<"bundled", "DSK", "Premier">>, <<"bundled", "DSK", "csv">>}

\* df["name"].tolist(): the bundled FDN list names a card twice
CsvNames(csv_path) ==
    CASE csv_path = <<"bundled", "FDN", "csv">> -> <<NameOpt, NameOpt>>
      [] csv_path[2] = "DSK" -> <<NameShock>>
      [] OTHER -> <<NameOpt, NameShock>>

\* os.path.isdir(onnx_dir) and any(f.endswith(".onnx") ...)
_find_appdata_model_directory(a) ==
    IF \E f \in OnnxFiles(a) : f[1] = "appdata" THEN "appdata" ELSE ""

_find_bundled_model_directory(bundled_isdir) ==
    IF bundled_isdir THEN "bundled" ELSE ""

find_best_model_directory(a, bundled_isdir) ==
    IF _find_appdata_model_directory(a) # ""
    THEN _find_appdata_model_directory(a)
    ELSE _find_bundled_model_directory(bundled_isdir)

--------------------------------------------------------------------------
(* ML ratings: MLModelManager *)

\* d[k] = v
Put(d, k, v) == [x \in DOMAIN d \cup {k} |-> IF x = k THEN v ELSE d[x]]

\* Faulty variant, for sensitivity of the properties: PickTwo falls back to
\* Premier as Premier does to PickTwo
get_model_FallbackBoth(sessions, set_code, mode) ==
    LET cache_key == <<set_code, mode>>
        modes_to_try == IF mode = "Premier" THEN <<mode, "PickTwo">>
                        ELSE IF mode = "PickTwo" THEN <<mode, "Premier">>
                        ELSE <<mode>>
        present == {i \in 1..Len(modes_to_try) :
                      <<model_directory, set_code, modes_to_try[i]>>
                          \in OnnxFiles(appdata_files)}
    IN  IF ~ONNX_AVAILABLE
        THEN [session |-> None, _sessions |-> sessions, read |-> {}]
        ELSE IF cache_key \in DOMAIN sessions
        THEN [session |-> sessions[cache_key], _sessions |-> sessions, read |-> {}]
        ELSE IF present = {}
        THEN [session |-> None, _sessions |-> sessions, read |-> {}]
        ELSE LET i == CHOOSE i \in present : \A j \in present : i <= j
                 model_path == <<model_directory, set_code, modes_to_try[i]>>
             IN  IF model_path \in CorruptFiles
                 THEN [session |-> None, _sessions |-> sessions, read |-> {model_path}]
                 ELSE [session |-> model_path,
                       _sessions |-> Put(sessions, cache_key, model_path),
                       read |-> {model_path}]

\* The session returned, the cache as the call leaves it, and the files read.
\* The cache key f"{set_code}_{mode}" is the pair (set_code, mode).
get_model(sessions, set_code, mode) ==
    LET cache_key == <<set_code, mode>>
        modes_to_try == IF mode = "Premier" THEN <<mode, "PickTwo">> ELSE <<mode>>
        present == {i \in 1..Len(modes_to_try) :
                      <<model_directory, set_code, modes_to_try[i]>>
                          \in OnnxFiles(appdata_files)}
    IN  IF ~ONNX_AVAILABLE
        THEN [session |-> None, _sessions |-> sessions, read |-> {}]
        ELSE IF cache_key \in DOMAIN sessions
        THEN [session |-> sessions[cache_key], _sessions |-> sessions, read |-> {}]
        ELSE IF present = {}
        THEN [session |-> None, _sessions |-> sessions, read |-> {}]
        ELSE LET i == CHOOSE i \in present : \A j \in present : i <= j
                 model_path == <<model_directory, set_code, modes_to_try[i]>>
             IN  IF model_path \in CorruptFiles
                 THEN [session |-> None, _sessions |-> sessions, read |-> {model_path}]
                 ELSE [session |-> model_path,
                       _sessions |-> Put(sessions, cache_key, model_path),
                       read |-> {model_path}]

\* Whether a list is returned, the list, the cache as the call leaves it,
\* and the files read
get_cardnames(cardnames, set_code) ==
    LET csv_path == <<model_directory, set_code, "csv">>
    IN  IF set_code \in DOMAIN cardnames
        THEN [found |-> TRUE, cardnames |-> cardnames[set_code],
              _cardnames |-> cardnames, read |-> {}]
        ELSE IF csv_path \notin CsvFiles(appdata_files)
        THEN [found |-> FALSE, cardnames |-> <<>>, _cardnames |-> cardnames,
              read |-> {}]
        ELSE IF csv_path \in CorruptFiles
        THEN [found |-> FALSE, cardnames |-> <<>>, _cardnames |-> cardnames,
              read |-> {csv_path}]
        ELSE [found |-> TRUE, cardnames |-> CsvNames(csv_path),
              _cardnames |-> Put(cardnames, set_code, CsvNames(csv_path)),
              read |-> {csv_path}]

--------------------------------------------------------------------------
(* ML ratings: MLRatingCalculator *)

\* round(100 / (1 + exp(-1.2 * z)), 1) in tenths for z = sqrt(p / q); for
\* z = -sqrt(p / q) it is 1000 minus this
LogisticTenths(p, q) ==
    CASE p = q -> 769
      [] 2 * p = q -> 700
      [] p = 2 * q -> 845
      [] 3 * p = q -> 667
      [] p = 3 * q -> 889
      [] 4 * p = q -> 646
      [] p = 4 * q -> 917
      [] 3 * p = 2 * q -> 727
      [] 2 * p = 3 * q -> 813

\* The ratings, in tenths, of raw scores that are each 0 or 1: of n scores
\* with k ones, a one is sqrt((n - k) / k) standard deviations above the
\* mean and a zero sqrt(k / (n - k)) below it
Normalize(raw_scores) ==
    LET n == Len(raw_scores)
        k == Cardinality({i \in 1..n : raw_scores[i] = 1})
    IN  IF k = 0 \/ k = n
        THEN [i \in 1..n |-> 500]
        ELSE [i \in 1..n |->
                IF raw_scores[i] = 1 THEN LogisticTenths(n - k, k)
                ELSE 1000 - LogisticTenths(k, n - k)]

\* Faulty variant, for sensitivity of the properties: the last name of the
\* vocabulary gets no entry
BuildRatings_DropLast(cardnames, ratings) ==
    [name \in {cardnames[i] : i \in 1..(Len(cardnames) - 1)} |->
        ratings[CHOOSE i \in 1..Len(cardnames) :
                    /\ cardnames[i] = name
                    /\ \A j \in (i + 1)..Len(cardnames) : cardnames[j] # name]]

\* {name: round(float(ratings[i]), 1) for i, name in enumerate(cardnames)}:
\* a name that occurs twice keeps the rating of its last index
BuildRatings(cardnames, ratings) ==
    [name \in {cardnames[i] : i \in 1..Len(cardnames)} |->
        ratings[CHOOSE i \in 1..Len(cardnames) :
                    /\ cardnames[i] = name
                    /\ \A j \in (i + 1)..Len(cardnames) : cardnames[j] # name]]

\* outputs[0].flatten(): up to MaxScores scores, all 0 but for the last,
\* which is 0 or 1
RawScores ==
    {[i \in 1..n |-> IF i = n THEN top ELSE 0] :
        n \in 1..MaxScores, top \in {0, 1}}

\* What session.run() does: it raises, or it returns raw scores
RunOutcomes ==
    {[raises |-> TRUE, raw_scores |-> <<>>]}
    \cup {[raises |-> FALSE, raw_scores |-> r] : r \in RawScores}

\* The cards already drafted: two, of which the vocabularies lack one
Pools == {<<NameOpt, NameElf>>}

MLInit ==
    /\ OverlayIdle
    /\ SortIdle
    /\ LayoutIdle
    /\ DirIdle
    /\ ONNX_AVAILABLE \in BOOLEAN
    /\ appdata_files \in AppdataStates
    /\ \E override \in {""} \cup ModelDirs :
          model_directory = IF override # "" THEN override
                            ELSE find_best_model_directory(appdata_files, TRUE)
    /\ _sessions = EmptyDict
    /\ _cardnames = EmptyDict
    /\ _current_ratings = EmptyDict
    /\ _current_set = ""
    /\ _current_mode = ""
    /\ ret = EmptyDict
    /\ ret_is_current = FALSE
    /\ raised = FALSE
    /\ last = NoLast

\* Faulty variant, for sensitivity of the properties: the vocabularies stay
set_model_directory_KeepVocabularies(path) ==
    /\ model_directory' = path
    /\ _sessions' = EmptyDict
    /\ raised' = FALSE
    /\ last' = NoLast
    /\ UNCHANGED <<ONNX_AVAILABLE, appdata_files, _cardnames, _current_ratings,
                   _current_set, _current_mode, ret, ret_is_current>>

set_model_directory(path) ==
    /\ model_directory' = path
    /\ _sessions' = EmptyDict
    /\ _cardnames' = EmptyDict
    /\ raised' = FALSE
    /\ last' = NoLast
    /\ UNCHANGED <<ONNX_AVAILABLE, appdata_files, _current_ratings,
                   _current_set, _current_mode, ret, ret_is_current>>

\* A caller asks the manager for a session
CallGetModel(set_code, mode) ==
    LET m == get_model(_sessions, set_code, mode)
    IN  /\ _sessions' = m._sessions
        /\ raised' = FALSE
        /\ last' = [session |-> m.session, found |-> FALSE, read |-> m.read]
        /\ UNCHANGED <<ONNX_AVAILABLE, appdata_files, model_directory, _cardnames,
                       _current_ratings, _current_set, _current_mode, ret,
                       ret_is_current>>

\* A caller asks the manager for a vocabulary
CallGetCardnames(set_code) ==
    LET c == get_cardnames(_cardnames, set_code)
    IN  /\ _cardnames' = c._cardnames
        /\ raised' = FALSE
        /\ last' = [session |-> None, found |-> c.found, read |-> c.read]
        /\ UNCHANGED <<ONNX_AVAILABLE, appdata_files, model_directory, _sessions,
                       _current_ratings, _current_set, _current_mode, ret,
                       ret_is_current>>

\* Faulty variant, for sensitivity of the properties: no try/except around
\* the inference
compute_ratings_Unguarded(pool_names, set_code, mode, outcome) ==
    /\ UNCHANGED <<ONNX_AVAILABLE, appdata_files, model_directory>>
    /\ last' = NoLast
    /\ \E m \in {get_model(_sessions, set_code, mode)} :
       \E c \in {IF m.session = None
                  THEN [found |-> FALSE, cardnames |-> <<>>,
                        _cardnames |-> _cardnames, read |-> {}]
                  ELSE get_cardnames(_cardnames, set_code)} :
          /\ _sessions' = m._sessions
          /\ _cardnames' = c._cardnames
          /\ IF ~c.found
             THEN /\ ret' = EmptyDict
                  /\ ret_is_current' = FALSE
                  /\ raised' = FALSE
                  /\ UNCHANGED <<_current_ratings, _current_set, _current_mode>>
             ELSE IF outcome.raises \/ Len(outcome.raw_scores) < Len(c.cardnames)
             THEN /\ raised' = TRUE
                  /\ UNCHANGED <<_current_ratings, _current_set, _current_mode,
                                 ret, ret_is_current>>
             ELSE /\ _current_ratings' =
                        BuildRatings(c.cardnames, Normalize(outcome.raw_scores))
                  /\ _current_set' = set_code
                  /\ _current_mode' = mode
                  /\ ret' = _current_ratings'
                  /\ ret_is_current' = TRUE
                  /\ raised' = FALSE

\* Faulty variant, for sensitivity of the properties: a failed call resets
\* the current ratings
compute_ratings_ResetOnFailure(pool_names, set_code, mode, outcome) ==
    /\ UNCHANGED <<ONNX_AVAILABLE, appdata_files, model_directory>>
    /\ last' = NoLast
    /\ \E m \in {get_model(_sessions, set_code, mode)} :
       \E c \in {IF m.session = None
                  THEN [found |-> FALSE, cardnames |-> <<>>,
                        _cardnames |-> _cardnames, read |-> {}]
                  ELSE get_cardnames(_cardnames, set_code)} :
          /\ _sessions' = m._sessions
          /\ _cardnames' = c._cardnames
          /\ IF ~c.found
             THEN /\ ret' = EmptyDict
                  /\ ret_is_current' = FALSE
                  /\ raised' = FALSE
                  /\ _current_ratings' = EmptyDict
                  /\ _current_set' = ""
                  /\ _current_mode' = ""
             ELSE IF outcome.raises \/ Len(outcome.raw_scores) < Len(c.cardnames)
             THEN /\ ret' = EmptyDict
                  /\ ret_is_current' = FALSE
                  /\ raised' = FALSE
                  /\ _current_ratings' = EmptyDict
                  /\ _current_set' = ""
                  /\ _current_mode' = ""
             ELSE /\ _current_ratings' =
                        BuildRatings(c.cardnames, Normalize(outcome.raw_scores))
                  /\ _current_set' = set_code
                  /\ _current_mode' = mode
                  /\ ret' = _current_ratings'
                  /\ ret_is_current' = TRUE
                  /\ raised' = FALSE

\* compute_ratings(pool_names, set_code, mode), session.run() doing what
\* outcome says.  pool_names only makes the input of session.run().  With
\* the runtime unavailable get_model() returns None and touches nothing, as
\* the first return of compute_ratings does; get_cardnames() is called only
\* when a session was returned.  The empty mapping returned on a failure is
\* a new object; the mapping returned on success is the object
\* self._current_ratings refers to.
compute_ratings(pool_names, set_code, mode, outcome) ==
    /\ UNCHANGED <<ONNX_AVAILABLE, appdata_files, model_directory>>
    /\ last' = NoLast
    /\ \E m \in {get_model(_sessions, set_code, mode)} :
       \E c \in {IF m.session = None
                  THEN [found |-> FALSE, cardnames |-> <<>>,
                        _cardnames |-> _cardnames, read |-> {}]
                  ELSE get_cardnames(_cardnames, set_code)} :
          /\ _sessions' = m._sessions
          /\ _cardnames' = c._cardnames
          /\ IF ~c.found
             THEN /\ ret' = EmptyDict
                  /\ ret_is_current' = FALSE
                  /\ raised' = FALSE
                  /\ UNCHANGED <<_current_ratings, _current_set, _current_mode>>
             ELSE IF outcome.raises \/ Len(outcome.raw_scores) < Len(c.cardnames)
             THEN /\ ret' = EmptyDict
                  /\ ret_is_current' = FALSE
                  /\ raised' = FALSE
                  /\ UNCHANGED <<_current_ratings, _current_set, _current_mode>>
             ELSE /\ _current_ratings' =
                        BuildRatings(c.cardnames, Normalize(outcome.raw_scores))
                  /\ _current_set' = set_code
                  /\ _current_mode' = mode
                  /\ ret' = _current_ratings'
                  /\ ret_is_current' = TRUE
                  /\ raised' = FALSE

\* self._current_ratings.clear() empties the object, which the caller of the
\* last compute_ratings may hold
clear_ratings ==
    /\ _current_ratings' = EmptyDict
    /\ _current_set' = ""
    /\ _current_mode' = ""
    /\ ret' = IF ret_is_current THEN EmptyDict ELSE ret
    /\ raised' = FALSE
    /\ last' = NoLast
    /\ UNCHANGED <<ONNX_AVAILABLE, appdata_files, model_directory, _sessions,
                   _cardnames, ret_is_current>>

\* ModelUpdate.download_and_install(): the AppData directory gets the files
\* of the release, or is left empty when the extraction fails after the
\* old files were removed
download_and_install(result) ==
    /\ result # appdata_files
    /\ appdata_files' = result
    /\ UNCHANGED <<ONNX_AVAILABLE, model_directory, _sessions, _cardnames,
                   _current_ratings, _current_set, _current_mode, ret,
                   ret_is_current, raised, last>>

MLNext ==
    \/ /\ \E path \in ModelDirs : set_model_directory(path)
       /\ UNCHANGED <<overlayVars, sortVars, layoutVars, dirVars>>
    \/ /\ \E set_code \in SetCodes, mode \in Modes : CallGetModel(set_code, mode)
       /\ UNCHANGED <<overlayVars, sortVars, layoutVars, dirVars>>
    \/ /\ \E set_code \in SetCodes : CallGetCardnames(set_code)
       /\ UNCHANGED <<overlayVars, sortVars, layoutVars, dirVars>>
    \/ /\ \E pool_names \in Pools, set_code \in SetCodes, mode \in Modes,
             outcome \in RunOutcomes :
               compute_ratings(pool_names, set_code, mode, outcome)
       /\ UNCHANGED <<overlayVars, sortVars, layoutVars, dirVars>>
    \/ clear_ratings /\ UNCHANGED <<overlayVars, sortVars, layoutVars, dirVars>>
    \/ /\ \E result \in {"new", "empty"} : download_and_install(result)
       /\ UNCHANGED <<overlayVars, sortVars, layoutVars, dirVars>>

MLSpec == MLInit /\ [][MLNext]_vars

--------------------------------------------------------------------------
(* ML ratings: the directory MLModelManager starts with *)

\* A bundled models directory is absent, exists without any model file, or
\* holds the models of the release
BundledStates == {"absent", "empty", "models"}

\* model_directory: none given, one of the two roots, or another directory
Overrides == {"", "elsewhere"} \cup ModelDirs

DirInit ==
    /\ OverlayIdle
    /\ SortIdle
    /\ LayoutIdle
    /\ MLIdle
    /\ dir_appdata \in AppdataStates
    /\ dir_frozen \in BOOLEAN
    /\ dir_exe \in BundledStates
    /\ dir_script \in BundledStates
    /\ dir_override \in Overrides
    /\ dir_result = ""
    /\ dir_pc = "call"

\* The directory _find_bundled_model_directory() looks at: next to the
\* executable in a frozen build, next to the source tree otherwise
Candidate == IF dir_frozen THEN dir_exe ELSE dir_script

\* MLModelManager.__init__:
\* self.model_directory = model_directory or find_best_model_directory()
MLModelManager_init ==
    /\ dir_pc = "call"
    /\ dir_result' =
          IF dir_override # "" THEN dir_override
          ELSE find_best_model_directory(dir_appdata, Candidate # "absent")
    /\ dir_pc' = "constructed"
    /\ UNCHANGED <<dir_appdata, dir_frozen, dir_exe, dir_script, dir_override,
                   overlayVars, sortVars, layoutVars, mlVars>>

DirNext == MLModelManager_init

DirSpec == DirInit /\ [][DirNext]_vars

--------------------------------------------------------------------------
(* Properties *)

AllHidden(badges) == \A i \in 1..Len(badges) : ~badges[i].visible

VisibleCount(badges) == Cardinality({i \in 1..Len(badges) : badges[i].visible})

Width(rect) == rect[3] - rect[1]
Height(rect) == rect[4] - rect[2]

\* The window is found, not minimized, and its rectangle is read
WindowReadable(w) == platformWin32 /\ w.found /\ ~w.minimized /\ w.rect # None

\* A reposition run over these cards and ratings cannot place the badges
CannotPlace(cards, ratings_dict, w) ==
    \/ cards = <<>>
    \/ DOMAIN ratings_dict = {}
    \/ ~WindowReadable(w)
    \/ Len(cards) > 15
    \/ Width(w.rect) <= 0
    \/ Height(w.rect) <= 0

\* The pool holds the same slot objects before and after the step
SamePool ==
    /\ Len(_badges') = Len(_badges)
    /\ \A i \in 1..Len(_badges) : _badges'[i].top = _badges[i].top
    /\ toplevels' = toplevels

\* C1 as stated: in every reachable state the number of visible badge slots
\* equals the size of the cached pack.
C1_VisibleEqualsPack == VisibleCount(_badges) = Len(_last_pack_cards)

\* C1 (amended): in every reachable state the number of visible badge slots
\* is either zero or the size of the cached pack.
C1_VisibleZeroOrPack == VisibleCount(_badges) \in {0, Len(_last_pack_cards)}

C1_Witness ==
    /\ Len(_badges) = 2
    /\ VisibleCount(_badges) = 1
    /\ Len(_last_pack_cards) = 1

\* What a reposition attempt over (cards, ratings_dict) makes of the badges
Repositioned(cards, ratings_dict) ==
    _badges' = _position_badges(_badges, toplevels, cards, ratings_dict, win).badges

\* Some update() call makes this step
UpdateStep == \E p \in Packs, r \in RatingMaps, k \in PickNumbers : update(p, r, k)

\* C2 as stated: every update(pack, ratings, pick_number), whatever the enable
\* flag, caches its three arguments and runs a reposition attempt (which hides
\* the badges when the flag is off) before it returns.
C2_UpdateAlwaysStores ==
    [][\A p \in Packs, r \in RatingMaps, k \in PickNumbers :
          update(p, r, k) =>
              /\ _last_pack_cards' = p
              /\ _last_ratings' = r
              /\ _last_pick_number' = k
              /\ IF enabled THEN Repositioned(p, r) ELSE AllHidden(_badges')]_vars

\* C2 (amended): an update() made with the enable flag on, on Windows, caches
\* its three arguments and runs a reposition attempt over them before it
\* returns; an update() made with the flag off, or on another platform, leaves
\* the cached pack, ratings and pick number as they were.
C2_UpdateStoresWhenOn ==
    /\ [][\A p \in Packs, r \in RatingMaps, k \in PickNumbers :
            (enabled /\ platformWin32 /\ update(p, r, k)) =>
                /\ _last_pack_cards' = p
                /\ _last_ratings' = r
                /\ _last_pick_number' = k
                /\ Repositioned(p, r)]_vars
    /\ [][(~(enabled /\ platformWin32) /\ UpdateStep) =>
            UNCHANGED <<_last_pack_cards, _last_ratings, _last_pick_number>>]_vars

C2_Witness ==
    /\ enabled
    /\ _last_pack_cards = PairPack
    /\ _last_pick_number = 1
    /\ VisibleCount(_badges) = 2

\* C3: a tick that runs with the enable flag off (the flag went off while
\* badges were visible and no update() came since) leaves every badge hidden.
C3_TickHidesWhenOff ==
    [][(_poll_tick /\ ~enabled) => AllHidden(_badges')]_vars

\* C4: with the enable flag off, a toggle, a tick and an update() leave the
\* cached pack and ratings as they were; and the first tick after the flag
\* is on again, with the window as it was when the flag went off over the
\* badges placed from it, shows the badges exactly as they were then.
C4_OffKeepsCacheOnRestores ==
    /\ [][((\E v \in BOOLEAN : SetEnabled(v))
            \/ (~enabled /\ _poll_tick)
            \/ (~enabled /\ UpdateStep))
          => UNCHANGED <<_last_pack_cards, _last_ratings>>]_vars
    /\ [][(_poll_tick /\ enabled /\ snap.valid /\ win = snap.win)
          => _badges' = snap.badges]_vars

\* The flag went off over visible badges, an update() hid them, the flag
\* went on again and the tick brought them back
C4_Witness ==
    /\ enabled
    /\ ~snap.valid
    /\ snap.badges # <<>>
    /\ _badges = snap.badges
    /\ VisibleCount(_badges) = 2
    /\ _badges[1].is_best # _badges[2].is_best

\* C5: an update() made with the feature off, and a reposition run (from
\* update() or from a tick) that finds no cards, no ratings, no window, a
\* minimized window, no rectangle, more than 15 cards or a rectangle without
\* width or height, leaves every badge hidden and the pool holding the same
\* slot objects as before.
C5_FailureHidesKeepsPool ==
    /\ [][(~enabled /\ UpdateStep) => (AllHidden(_badges') /\ SamePool)]_vars
    /\ [][\A p \in Packs, r \in RatingMaps, k \in PickNumbers :
            (enabled /\ platformWin32 /\ CannotPlace(p, r, win) /\ update(p, r, k))
            => (AllHidden(_badges') /\ SamePool)]_vars
    /\ [][(_poll_tick /\ enabled /\ _last_pack_cards # <<>>
             /\ DOMAIN _last_ratings # {}
             /\ CannotPlace(_last_pack_cards, _last_ratings, win))
          => (AllHidden(_badges') /\ SamePool)]_vars

\* Two slots exist and are hidden after update() was given the 16-card pack
C5_Witness ==
    /\ enabled
    /\ _last_pack_cards = OversizePack
    /\ DOMAIN _last_ratings # {}
    /\ WindowReadable(win)
    /\ Len(_badges) = 2
    /\ AllHidden(_badges)

\* The first index of the sorted pack whose rating is the best rating
FirstBest(pack_cards, ratings_dict) ==
    CHOOSE i \in 1..Len(pack_cards) :
        /\ CardRating(pack_cards[i], ratings_dict) = BestRating(pack_cards, ratings_dict)
        /\ \A j \in 1..(i - 1) :
              CardRating(pack_cards[j], ratings_dict) # BestRating(pack_cards, ratings_dict)

\* C6: when badges are shown, the best-in-pack highlight is on exactly the
\* first card in sort order that has the maximum rating if that maximum is
\* positive, and on no card if it is 0.
C6_OneBestFirstInOrder ==
    AnyVisible(_badges) =>
        LET pack_cards == sorted(_last_pack_cards)
            best == BestRating(pack_cards, _last_ratings)
        IN  \A i \in 1..Len(pack_cards) :
                _badges[i].is_best <=>
                    (best > 0 /\ i = FirstBest(pack_cards, _last_ratings))

\* A tick reruns _position_badges
TickRepositions ==
    _poll_tick /\ enabled /\ _last_pack_cards # <<>> /\ DOMAIN _last_ratings # {}

\* C7: with the feature on, a pack of 1..15 cards and ratings cached, and the
\* window found, not minimized and with a rectangle of positive size, a tick
\* leaves one visible badge per card at the position computed from the
\* window's current rectangle; and no tick, and no update() that fails to
\* place the badges, clears the cached pack or ratings.
C7_TickReplaces ==
    /\ [][(_poll_tick /\ enabled
             /\ ~CannotPlace(_last_pack_cards, _last_ratings, win))
          => /\ VisibleCount(_badges') = Len(_last_pack_cards)
             /\ \A i \in 1..Len(_last_pack_cards) :
                  /\ _badges'[i].visible
                  /\ _badges'[i].pos =
                       _calculate_card_positions(Len(_last_pack_cards), win.rect)[i]]_vars
    /\ [][_poll_tick => UNCHANGED <<_last_pack_cards, _last_ratings>>]_vars
    /\ [][\A p \in Packs, r \in RatingMaps, k \in PickNumbers :
            (enabled /\ platformWin32 /\ update(p, r, k) /\ CannotPlace(p, r, win))
            => (_last_pack_cards' = p /\ _last_ratings' = r)]_vars

\* Both badges are back, placed from the second rectangle
C7_Witness ==
    /\ enabled
    /\ win.rect = <<0, 0, 800, 600>>
    /\ Len(_last_pack_cards) = 2
    /\ VisibleCount(_badges) = 2
    /\ \A i \in 1..2 : _badges[i].pos = _calculate_card_positions(2, win.rect)[i]

\* C8: update(), a tick and hide_all() never make the pool shorter nor
\* replace a slot; the pool grows only in a reposition that places n cards,
\* and then to exactly n slots; and after a reposition that places n cards
\* the visible slots are exactly the first n, the others staying in the pool.
C8_PoolGrowsOnly ==
    /\ [][(UpdateStep \/ _poll_tick \/ hide_all) =>
            /\ Len(_badges') >= Len(_badges)
            /\ \A i \in 1..Len(_badges) : _badges'[i].top = _badges[i].top
            /\ toplevels \subseteq toplevels'
            /\ Len(_badges') > Len(_badges) =>
                 /\ Len(_badges') = Len(_last_pack_cards')
                 /\ Len(_badges') <= 15
                 /\ VisibleCount(_badges') = Len(_badges')]_vars
    /\ [][((TickRepositions /\ ~CannotPlace(_last_pack_cards, _last_ratings, win))
            \/ \E p \in Packs, r \in RatingMaps, k \in PickNumbers :
                 enabled /\ platformWin32 /\ update(p, r, k) /\ ~CannotPlace(p, r, win))
          => \A i \in 1..Len(_badges') :
                _badges'[i].visible <=> i <= Len(_last_pack_cards')]_vars

\* One card is shown and the second slot is kept, hidden
C8_Witness ==
    /\ Len(_last_pack_cards) = 1
    /\ Len(_badges) = 2
    /\ _badges[1].visible
    /\ ~_badges[2].visible
    /\ Cardinality(toplevels) = 2

\* Nothing can be shown: the pack or the ratings are missing
NothingCached == _last_pack_cards = <<>> \/ DOMAIN _last_ratings = {}

\* C9: hide_all() leaves every badge hidden and the cached pack and ratings
\* empty; while the pack or the ratings are missing every badge stays hidden;
\* and only an update() given a non-empty pack and non-empty ratings ends that.
C9_HideAllUntilUpdate ==
    /\ [][hide_all =>
            /\ AllHidden(_badges')
            /\ _last_pack_cards' = <<>>
            /\ DOMAIN _last_ratings' = {}]_vars
    /\ [](NothingCached => AllHidden(_badges))
    /\ [][(NothingCached /\ ~NothingCached') =>
            \E p \in Packs, r \in RatingMaps, k \in PickNumbers :
                p # <<>> /\ DOMAIN r # {} /\ update(p, r, k)]_vars

\* hide_all() ran over a pool that had been shown
C9_Witness ==
    /\ _last_pack_cards = <<>>
    /\ DOMAIN _last_ratings = {}
    /\ _last_pick_number = 1
    /\ Len(_badges) = 2
    /\ AllHidden(_badges)
    /\ enabled
    /\ WindowReadable(win)

\* destroy() has run and nothing has been created since
Destroyed ==
    /\ _poll_id = NoneId
    /\ timers = {}
    /\ _badges = <<>>
    /\ toplevels = {}

\* C10: destroy() leaves no timer pending, the pool empty and no Toplevel
\* alive; from then on no tick runs and no timer is pending; and a destroy()
\* that follows a destroy() changes nothing.
C10_DestroyStopsAndReleases ==
    /\ [][destroy => Destroyed']_vars
    /\ [][_poll_id = NoneId => (timers' = {} /\ _poll_id' = NoneId /\ ~_poll_tick)]_vars
    /\ [](_poll_id = NoneId => timers = {})
    /\ [][(Destroyed /\ destroy) =>
            UNCHANGED <<platformWin32, enabled, win, toplevels, timers, _badges,
                        _poll_id, _last_pack_cards, _last_ratings,
                        _last_pick_number>>]_vars

\* destroy() ran over a pool of two badges that update() had shown
C10_Witness ==
    /\ Destroyed
    /\ Len(_last_pack_cards) = 2
    /\ DOMAIN _last_ratings # {}
    /\ enabled

\* C16: no two visible badges that show different cards are at the same
\* screen position, whatever the window rectangle of positive width and
\* height and whatever the pack size in 1..15.
C16_NoSharedPosition ==
    AnyVisible(_badges) =>
        LET pack_cards == sorted(_last_pack_cards)
        IN  \A i, j \in 1..Len(pack_cards) :
                (i < j /\ _badges[i].visible /\ _badges[j].visible
                   /\ pack_cards[i] # pack_cards[j])
                => _badges[i].pos # _badges[j].pos

--------------------------------------------------------------------------
(* Properties of the sort *)

\* sorted() has returned
Sorted == sort_pc \in {"sorted", "resorted"}

NameOf(card) == Get(card, "name", <<>>)

\* How often a card occurs in a list
Count(card, cards) == Cardinality({i \in 1..Len(cards) : cards[i] = card})

\* The list b holds the cards of the list a, each as often
SameCards(a, b) ==
    /\ Len(a) = Len(b)
    /\ \A i \in 1..Len(a) : Count(a[i], a) = Count(a[i], b)

\* C11: in the sorted list every card whose name is digit-only stands after
\* every card whose name is not, whatever rarity, types, colors or
\* color_identity the two declare.
C11_DigitNamesLast ==
    Sorted =>
        \A i, j \in 1..Len(sort_out) :
            (IsDigit(NameOf(sort_out[i])) /\ ~IsDigit(NameOf(sort_out[j]))) => j < i

\* The digit-named mythic white creature went behind the colourless common land
C11_Witness ==
    /\ Sorted
    /\ sort_in = <<SevenMythic, LandBog>>
    /\ sort_out = <<LandBog, SevenMythic>>

\* The rank the claim gives a rarity, a missing one included
RarityRank(card) ==
    IF "rarity" \notin DOMAIN card THEN 3
    ELSE CASE card["rarity"] = "mythic" -> 0
           [] card["rarity"] = "rare" -> 1
           [] card["rarity"] = "uncommon" -> 2
           [] OTHER -> 3

LandFlag(card) ==
    IF "types" \in DOMAIN card /\ "Land" \in card["types"] THEN 1 ELSE 0

\* The colours the rank is looked up for
RankedColors(card) ==
    IF /\ "types" \in DOMAIN card
       /\ card["types"] \cap {"Artifact", "Land"} # {}
       /\ "color_identity" \in DOMAIN card
    THEN card["color_identity"]
    ELSE IF "colors" \in DOMAIN card THEN card["colors"] ELSE {}

WUBRG == <<"W", "U", "B", "R", "G">>

\* Bit i of the mask m, i in 0..4
Bit(m, i) == (m \div (2 ^ i)) % 2

MaskOf(colors) ==
    IF colors = {} THEN 0
    ELSE LET b(i) == IF WUBRG[i] \in colors THEN 2 ^ (i - 1) ELSE 0
         IN  b(1) + b(2) + b(3) + b(4) + b(5)

\* The number of colours of a mask, the colourless mask counting as the last class
ColorClass(m) ==
    IF m = 0 THEN 6
    ELSE Bit(m, 0) + Bit(m, 1) + Bit(m, 2) + Bit(m, 3) + Bit(m, 4)

\* The table is a permutation of 0..31 that ranks the masks by their number
\* of colours, colourless last, and the one-colour masks in W, U, B, R, G order
TableAsClaimed ==
    /\ {_COLOR_SORT_TABLE(m) : m \in 0..31} = 0..31
    /\ \A m, n \in 0..31 :
          ColorClass(m) < ColorClass(n) => _COLOR_SORT_TABLE(m) < _COLOR_SORT_TABLE(n)
    /\ \A i \in 0..3 : _COLOR_SORT_TABLE(2 ^ i) < _COLOR_SORT_TABLE(2 ^ (i + 1))

\* (rarity rank, land flag, colour rank, name) of a card
LexKey(card) ==
    <<RarityRank(card), LandFlag(card),
      _COLOR_SORT_TABLE(MaskOf(RankedColors(card))), NameOf(card)>>

\* k is not after l in the lexicographic order of the four components
LexLeq(k, l) ==
    \/ k[1] < l[1]
    \/ k[1] = l[1] /\ k[2] < l[2]
    \/ k[1] = l[1] /\ k[2] = l[2] /\ k[3] < l[3]
    \/ k[1] = l[1] /\ k[2] = l[2] /\ k[3] = l[3] /\ (k[4] = l[4] \/ StrLess(k[4], l[4]))

\* C12: the sorted list holds the cards of the list given, the empty and the
\* one-card list unchanged, and its cards whose name is not digit-only stand
\* in the lexicographic order of (rarity rank with a missing or unknown
\* rarity as common, land flag, colour rank of colors or, for artifacts and
\* lands that have one, of color_identity, name); the colour table is a
\* permutation of 0..31 ordered by number of colours with colourless last.
C12_LexicographicOrder ==
    /\ TableAsClaimed
    /\ Sorted =>
          /\ SameCards(sort_in, sort_out)
          /\ Len(sort_in) <= 1 => sort_out = sort_in
          /\ \A i, j \in 1..Len(sort_out) :
                (i < j /\ ~IsDigit(NameOf(sort_out[i])) /\ ~IsDigit(NameOf(sort_out[j])))
                => LexLeq(LexKey(sort_out[i]), LexKey(sort_out[j]))

\* The artifact is ranked by its red color_identity, ahead of the green card,
\* and the card that has nothing but a rarity is ranked as a common one
C12_Witness ==
    /\ Sorted
    /\ sort_in = <<CardElf, RarityOnly, ArtifactOrb>>
    /\ sort_out = <<ArtifactOrb, CardElf, RarityOnly>>

\* C13: sorting the sorted list again returns the same list.
C13_SortIdempotent == sort_pc = "resorted" => sort_again = sort_out

\* Two different cards with the same key keep their order both times
C13_Witness ==
    /\ sort_pc = "resorted"
    /\ sort_in = <<LandBog, SevenMythic, SevenLand>>
    /\ sort_again = sort_in

--------------------------------------------------------------------------
(* Properties of the layout *)

PositiveSize(rect) == Width(rect) > 0 /\ Height(rect) > 0

\* C14: the call returns exactly num_cards coordinates when num_cards is in
\* 1..15 and the rectangle has positive width and height, and the empty list
\* for a count of 0, of 16 or more, or negative, and for a rectangle whose
\* width or height is zero or negative.
C14_CountOrEmpty ==
    lay_pc = "returned" =>
        IF lay_count \in 1..15 /\ PositiveSize(lay_rect)
        THEN /\ Len(lay_positions) = lay_count
             /\ \A k \in 1..lay_count : Len(lay_positions[k]) = 2
        ELSE lay_positions = <<>>

\* Fifteen coordinates for fifteen cards
C14_Witness ==
    /\ lay_pc = "returned"
    /\ lay_count = 15
    /\ lay_rect = <<100, 100, 1100, 600>>
    /\ Len(lay_positions) = 15

\* The columns of a row: 8 for 9..15 cards, the count itself for 1..8
Columns(count) == IF count \in 9..15 THEN 8 ELSE count

\* The cell width, an eighth of the grid width, in 16000ths of a pixel, and
\* the cell height, half of the grid height, in 200000ths of a pixel
CellWidth(rect) == 2 * (ingame_grid_right - ingame_grid_left) * Width(rect)
CellHeight(rect) == 100 * (ingame_grid_bottom - ingame_grid_top) * Height(rect)

\* The badge's x in the column col, in 16000ths, and its y in the row row,
\* in 200000ths, before int()
BadgeX(rect, col) ==
    16000 * rect[1] + 16 * ingame_grid_left * Width(rect)
    + col * CellWidth(rect) + CellWidth(rect) \div 2 - 16000 * BadgeHalfWidth
BadgeY(rect, row) ==
    200000 * rect[2] + 200 * ingame_grid_top * Height(rect)
    + row * CellHeight(rect) + (YOffsetPct * CellHeight(rect)) \div 100

\* C15: card index i is placed in row i div columns and column i mod columns,
\* columns being 8 for 9..15 cards and the count for 1..8, in cells an eighth
\* of the grid wide and half of the grid high whatever the count; so eight
\* cards share one y, and of nine cards the ninth has the x of the first and,
\* before truncation, a y one cell height lower.
C15_RowMajorEightColumns ==
    (lay_pc = "returned" /\ lay_count \in 1..15 /\ PositiveSize(lay_rect)) =>
        /\ Len(lay_positions) = lay_count
        /\ \A i \in 0..(lay_count - 1) :
              lay_positions[i + 1] =
                  <<Trunc(BadgeX(lay_rect, i % Columns(lay_count)), 16000),
                    Trunc(BadgeY(lay_rect, i \div Columns(lay_count)), 200000)>>
        /\ lay_count = 8 =>
              \A k \in 1..8 : lay_positions[k][2] = lay_positions[1][2]
        /\ lay_count = 9 =>
              /\ lay_positions[9][1] = lay_positions[1][1]
              /\ lay_positions[9][2] =
                    Trunc(BadgeY(lay_rect, 0) + CellHeight(lay_rect), 200000)

\* Nine cards: the ninth under the first, the eighth in the first row
C15_Witness ==
    /\ lay_pc = "returned"
    /\ lay_count = 9
    /\ lay_rect = <<100, 100, 1100, 600>>
    /\ lay_positions[9][1] = lay_positions[1][1]
    /\ lay_positions[9][2] > lay_positions[1][2]
    /\ lay_positions[8][2] = lay_positions[1][2]

--------------------------------------------------------------------------
(* Properties of the rating engine *)

\* Some set_model_directory() call makes this step
SetDirectoryStep == \E path \in ModelDirs : set_model_directory(path)

\* Every cached session and vocabulary is still cached, unchanged
CachesKept ==
    /\ \A k \in DOMAIN _sessions :
          k \in DOMAIN _sessions' /\ _sessions'[k] = _sessions[k]
    /\ \A k \in DOMAIN _cardnames :
          k \in DOMAIN _cardnames' /\ _cardnames'[k] = _cardnames[k]

\* C17: set_model_directory(path) leaves both caches empty; a session or a
\* vocabulary that is not cached is read from the current directory, so
\* every cached session comes from it; no step other than
\* set_model_directory() drops or replaces a cached session or vocabulary;
\* and get_model() for a cached context returns the cached session and
\* reads no file.
C17_DirectoryChangeClearsCaches ==
    /\ [][\A path \in ModelDirs : set_model_directory(path) =>
            /\ model_directory' = path
            /\ DOMAIN _sessions' = {}
            /\ DOMAIN _cardnames' = {}]_vars
    /\ [](\A k \in DOMAIN _sessions : _sessions[k][1] = model_directory)
    /\ [][\A s \in SetCodes, m \in Modes :
            (<<s, m>> \notin DOMAIN _sessions /\ CallGetModel(s, m)
               /\ last'.session # None)
            => /\ last'.session[1] = model_directory
               /\ last'.read = {last'.session}
               /\ _sessions'[<<s, m>>] = last'.session]_vars
    /\ [][\A s \in SetCodes :
            (s \notin DOMAIN _cardnames /\ CallGetCardnames(s) /\ last'.found)
            => /\ last'.read = {<<model_directory, s, "csv">>}
               /\ _cardnames'[s] = CsvNames(<<model_directory, s, "csv">>)]_vars
    /\ [][SetDirectoryStep \/ CachesKept]_vars
    /\ [][\A s \in SetCodes, m \in Modes :
            (<<s, m>> \in DOMAIN _sessions /\ CallGetModel(s, m))
            => (last'.session = _sessions[<<s, m>>] /\ last'.read = {})]_vars

\* Ratings computed from the AppData vocabulary, the directory set to the
\* bundled one, and two contexts loaded again from there
C17_Witness ==
    /\ model_directory = "bundled"
    /\ NameShock \in DOMAIN _current_ratings
    /\ DOMAIN _sessions = {<<"FDN", "Premier">>, <<"DSK", "PickTwo">>}
    /\ _sessions[<<"FDN", "Premier">>] = <<"bundled", "FDN", "Premier">>
    /\ "FDN" \in DOMAIN _cardnames
    /\ _cardnames["FDN"] = <<NameOpt, NameOpt>>

\* The file get_model() loads for a context that is not cached: the file of
\* the mode asked for, the PickTwo file of the set when the mode is Premier
\* and its file is absent, otherwise none; and no session when that file
\* fails to load
Resolved(set_code, mode) ==
    LET own == <<model_directory, set_code, mode>>
        alternate == <<model_directory, set_code, "PickTwo">>
        files == OnnxFiles(appdata_files)
        usable(f) == IF f \in CorruptFiles THEN None ELSE f
    IN  IF own \in files THEN usable(own)
        ELSE IF mode = "Premier" /\ alternate \in files THEN usable(alternate)
        ELSE None

\* C18: get_model(set, mode) for a context that is not cached returns the
\* session of the file of that mode, or, only when the mode is Premier and the
\* Premier file of the set is absent, that of the PickTwo file of the same
\* set; a cached session is of the set of its key and of the mode of its key
\* or, under a Premier key, of PickTwo; and when no file resolves,
\* compute_ratings returns the empty mapping.
C18_FallbackPremierToPickTwoOnly ==
    /\ [][\A s \in SetCodes, m \in Modes :
            (ONNX_AVAILABLE /\ <<s, m>> \notin DOMAIN _sessions /\ CallGetModel(s, m))
            => last'.session = Resolved(s, m)]_vars
    /\ [](\A k \in DOMAIN _sessions :
            /\ _sessions[k][2] = k[1]
            /\ \/ _sessions[k][3] = k[2]
               \/ k[2] = "Premier" /\ _sessions[k][3] = "PickTwo")
    /\ [][\A p \in Pools, s \in SetCodes, m \in Modes, o \in RunOutcomes :
            (<<s, m>> \notin DOMAIN _sessions /\ Resolved(s, m) = None
               /\ compute_ratings(p, s, m, o))
            => ret' = EmptyDict]_vars

\* Premier was asked for and the PickTwo session is cached under its key,
\* and the last call, for PickTwo of a set that has only a Premier file,
\* got no session
C18_Witness ==
    /\ model_directory = "appdata"
    /\ appdata_files = "old"
    /\ DOMAIN _sessions = {<<"FDN", "Premier">>}
    /\ _sessions[<<"FDN", "Premier">>] = <<"appdata", "FDN", "PickTwo">>
    /\ last = NoLast
    /\ ret = EmptyDict
    /\ DOMAIN _cardnames = {}

\* The vocabulary get_cardnames() has for a set, cached or on disk
HasVocabulary(set_code) ==
    \/ set_code \in DOMAIN _cardnames
    \/ /\ <<model_directory, set_code, "csv">> \in CsvFiles(appdata_files)
       /\ <<model_directory, set_code, "csv">> \notin CorruptFiles

Vocabulary(set_code) ==
    IF set_code \in DOMAIN _cardnames THEN _cardnames[set_code]
    ELSE CsvNames(<<model_directory, set_code, "csv">>)

\* No session or no vocabulary can be had for the context
Unresolvable(set_code, mode) ==
    \/ ~ONNX_AVAILABLE
    \/ <<set_code, mode>> \notin DOMAIN _sessions /\ Resolved(set_code, mode) = None
    \/ ~HasVocabulary(set_code)

\* session.run() raises, or returns fewer scores than the vocabulary has names
InferenceFails(set_code, outcome) ==
    outcome.raises \/ Len(outcome.raw_scores) < Len(Vocabulary(set_code))

\* C19: no compute_ratings call ends in an exception; it returns the empty
\* mapping when the runtime is unavailable, when no artifact or vocabulary
\* resolves, when the artifact fails to load and when the inference fails;
\* and a context that is unresolvable is so after the call, so that a second
\* call returns the empty mapping as well.
C19_NeverRaisesReturnsEmpty ==
    /\ [](~raised)
    /\ [][\A p \in Pools, s \in SetCodes, m \in Modes, o \in RunOutcomes :
            (Unresolvable(s, m) /\ compute_ratings(p, s, m, o))
            => (ret' = EmptyDict /\ Unresolvable(s, m)')]_vars
    /\ [][\A p \in Pools, s \in SetCodes, m \in Modes, o \in RunOutcomes :
            (~Unresolvable(s, m) /\ InferenceFails(s, o) /\ compute_ratings(p, s, m, o))
            => ret' = EmptyDict]_vars

\* A call returned the empty mapping after an earlier call had succeeded
\* and the files it had used were removed
C19_Witness ==
    /\ ret = EmptyDict
    /\ ~ret_is_current
    /\ DOMAIN _current_ratings # {}
    /\ _current_set = "DSK"
    /\ _current_mode = "Premier"
    /\ appdata_files = "empty"
    /\ model_directory = "appdata"

\* The names of a vocabulary
Names(cardnames) == {cardnames[i] : i \in 1..Len(cardnames)}

\* The raw scores are all equal
Uniform(raw_scores) ==
    \A i, j \in 1..Len(raw_scores) : raw_scores[i] = raw_scores[j]

\* What C20 says of a successful call, but for the size of the mapping
StoredAndNeutral(set_code, mode, outcome) ==
    /\ DOMAIN ret' = Names(Vocabulary(set_code))
    /\ _current_ratings' = ret'
    /\ ret_is_current'
    /\ _current_set' = set_code
    /\ _current_mode' = mode
    /\ Uniform(outcome.raw_scores) => \A n \in DOMAIN ret' : ret'[n] = 500

\* C20 as stated: a successful compute_ratings returns a mapping whose keys
\* are the vocabulary's names and whose size is the vocabulary's length,
\* stores it as the current ratings with the set and mode asked for, and
\* gives every entry 50.0 when the raw scores are all equal.
C20_SizeIsVocabularyLength ==
    [][\A p \in Pools, s \in SetCodes, m \in Modes, o \in RunOutcomes :
          (~Unresolvable(s, m) /\ ~InferenceFails(s, o) /\ compute_ratings(p, s, m, o))
          => /\ StoredAndNeutral(s, m, o)
             /\ Cardinality(DOMAIN ret') = Len(Vocabulary(s))]_vars

\* C20 (amended): a successful compute_ratings returns a mapping whose keys
\* are the vocabulary's names, one entry for each distinct name (as many as
\* the vocabulary is long when it repeats no name), stores it as the current
\* ratings with the set and mode asked for, and gives every entry 50.0 when
\* the raw scores are all equal.
C20_OneEntryPerName ==
    [][\A p \in Pools, s \in SetCodes, m \in Modes, o \in RunOutcomes :
          (~Unresolvable(s, m) /\ ~InferenceFails(s, o) /\ compute_ratings(p, s, m, o))
          => /\ StoredAndNeutral(s, m, o)
             /\ Cardinality(DOMAIN ret') = Cardinality(Names(Vocabulary(s)))
             /\ (Cardinality(Names(Vocabulary(s))) = Len(Vocabulary(s))
                   => Cardinality(DOMAIN ret') = Len(Vocabulary(s)))]_vars

\* Uniform scores over the vocabulary that names one card twice
C20_Witness ==
    /\ ret_is_current
    /\ ret = _current_ratings
    /\ _current_set = "FDN"
    /\ _current_mode = "Premier"
    /\ "FDN" \in DOMAIN _cardnames
    /\ _cardnames["FDN"] = <<NameOpt, NameOpt>>
    /\ DOMAIN ret = {NameOpt}
    /\ ret[NameOpt] = 500

\* Some compute_ratings() call makes this step
ComputeStep ==
    \E p \in Pools, s \in SetCodes, m \in Modes, o \in RunOutcomes :
        compute_ratings(p, s, m, o)

\* get_rating(card_name): None when the card has no current rating
get_rating(current_ratings, card_name) ==
    IF card_name \in DOMAIN current_ratings THEN current_ratings[card_name]
    ELSE None

\* has_ratings()
has_ratings(current_ratings) == Cardinality(DOMAIN current_ratings) > 0

CurrentContext == <<_current_ratings, _current_set, _current_mode>>

\* C24: a compute_ratings call that returns the empty mapping leaves the
\* current ratings, set and mode as they were, so that get_rating and
\* has_ratings answer as before the call; and the current ratings, set and
\* mode change only in a compute_ratings call that returns ratings or in
\* clear_ratings.
C24_FailedCallKeepsCurrent ==
    /\ [][(ComputeStep /\ ret' = EmptyDict) =>
            /\ CurrentContext' = CurrentContext
            /\ has_ratings(_current_ratings') = has_ratings(_current_ratings)
            /\ \A n \in {NameOpt, NameShock, NameElf} :
                  get_rating(_current_ratings', n) = get_rating(_current_ratings, n)]_vars
    /\ [][CurrentContext' # CurrentContext =>
            (clear_ratings \/ (ComputeStep /\ ret' # EmptyDict))]_vars

\* A call failed after ratings for FDN had been computed from the AppData
\* vocabulary, and those are still the current ratings
C24_Witness ==
    /\ ret = EmptyDict
    /\ ~ret_is_current
    /\ _current_set = "FDN"
    /\ _current_mode = "PickTwo"
    /\ DOMAIN _current_ratings = {NameOpt, NameShock}
    /\ _current_ratings[NameShock] = 769

\* A step of clear_ratings() or of set_model_directory()
ClearOrSetDirectoryStep == clear_ratings \/ SetDirectoryStep

\* C21: the mapping the last compute_ratings returned to its caller is not
\* changed by a later clear_ratings or set_model_directory call.
C21_ReturnedMapNeverMutated ==
    [][ClearOrSetDirectoryStep => ret' = ret]_vars

\* The artifact collection of a root is not empty
AppdataHasModels == \E f \in OnnxFiles(dir_appdata) : f[1] = "appdata"
BundledHasModels == Candidate = "models"

\* C22: the directory MLModelManager starts with is the override when one
\* is given; otherwise it is the AppData root when that holds model files,
\* else the bundled root when that holds model files; and a root that
\* holds no model file is never selected.
C22_FirstNonEmptyRoot ==
    dir_pc = "constructed" =>
       /\ dir_override # "" => dir_result = dir_override
       /\ (dir_override = "" /\ AppdataHasModels) => dir_result = "appdata"
       /\ (dir_override = "" /\ ~AppdataHasModels /\ BundledHasModels)
             => dir_result = "bundled"
       /\ (dir_override = "" /\ dir_result = "appdata") => AppdataHasModels
       /\ (dir_override = "" /\ dir_result = "bundled") => BundledHasModels

--------------------------------------------------------------------------
(* Properties of the overlay as a whole *)

\* The slots that are visible, counted from 1
VisibleSlots == {i \in 1..Len(_badges) : _badges[i].visible}

\* C23: in every reachable state the visible slots are none or exactly the
\* first n of the pool, n the size of the cached pack; and a slot is
\* visible only while the cached pack and the cached ratings are not empty.
C23_VisiblePrefixOfCachedPack ==
    /\ VisibleSlots = {} \/ VisibleSlots = 1..Len(_last_pack_cards)
    /\ VisibleSlots # {} =>
          /\ _last_pack_cards # <<>>
          /\ DOMAIN _last_ratings # {}

\* One card on screen from a pool of two, with the flag off since
C23_Witness ==
    /\ Len(_badges) = 2
    /\ VisibleSlots = {1}
    /\ Len(_last_pack_cards) = 1
    /\ ~enabled

\* A tick runs, with or without an error in the positioning
TickStep == _poll_tick \/ _poll_tick_error

\* C25: at most one timer is pending at any time, and exactly one until
\* destroy(); every tick, whether its positioning ran, hid the badges, was
\* skipped or raised, leaves exactly one timer pending, a new one that
\* self._poll_id names; so an error in the positioning of a tick does not
\* end the cadence.
C25_OneTimerEveryTickReschedules ==
    /\ [](Cardinality(timers) <= 1)
    /\ [](_poll_id # NoneId => timers = {_poll_id})
    /\ [][TickStep =>
            /\ timers' = {_poll_id'}
            /\ _poll_id' # NoneId
            /\ _poll_id' \notin timers]_vars

\* As after a tick whose positioning raised: with the flag on, two badges
\* are visible where the window that moved no longer puts them, and the
\* next tick is pending
C25_Witness ==
    /\ enabled
    /\ VisibleSlots = {1, 2}
    /\ WindowReadable(win)
    /\ ~PlacedFrom(_badges, win)
    /\ ~snap.valid
    /\ _poll_id = "after#2"
    /\ timers = {"after#2"}

==========================================================================
